---- MODULE Spec2Model ----
(***************************************************************************)
(* A model of pqiv's thumbnail cache (lib/thumbnailcache.c): the CRC of    *)
(* the PNG TR, the scanner check_png_attributes, the chunk-injecting       *)
(* writer png_writer, and the two public operations                        *)
(* load_thumbnail_from_cache and store_thumbnail_to_cache.                 *)
(*                                                                         *)
(* Bytes are the numbers 0..255 and a file, a buffer or a C string is a    *)
(* sequence of bytes.  A 32-bit word is the sequence of its four bytes in  *)
(* network order (most significant first), which is how the program holds  *)
(* every word it reads from or writes to a file (htonl, ntohl).            *)
(***************************************************************************)
EXTENDS Integers, Sequences, FiniteSets, TLC

(***************************************************************************)
(* Bounds of the model.                                                    *)
(***************************************************************************)
\* longest URI string (in bytes) of a source file
MaxUriLen == 2
\* largest modification time of a source file
MaxMTime == 10
\* most bytes of image data in the encoder's stream
MaxIdat == 0
\* most bytes the encoder hands to one write call, unless it hands all it has left
MaxCall == 2

(***************************************************************************)
(* Bytes, words and bit operations.                                        *)
(***************************************************************************)
Byte == 0..255

\* bit k (0 the lowest) of a ^ b, in its place
XorBit(a, b, k) == (((a \div k) + (b \div k)) % 2) * k

\* a ^ b of two half bytes, tabulated (@@ makes the table a table of values)
XorNibble ==
    [a \in 0..15 |->
        ([b \in 0..15 |->
            XorBit(a, b, 1) + XorBit(a, b, 2) + XorBit(a, b, 4) + XorBit(a, b, 8)]
         @@ <<>>)] @@ <<>>

\* a ^ b of two bytes
XorByte(a, b) == 16 * XorNibble[a \div 16][b \div 16] + XorNibble[a % 16][b % 16]

\* a ^ b of two 32-bit words
Xor32(a, b) ==
    <<XorByte(a[1], b[1]), XorByte(a[2], b[2]), XorByte(a[3], b[3]), XorByte(a[4], b[4])>>

\* c >> 1 of a 32-bit word
Shr1(c) ==
    <<c[1] \div 2,
      c[2] \div 2 + (c[1] % 2) * 128,
      c[3] \div 2 + (c[2] % 2) * 128,
      c[4] \div 2 + (c[3] % 2) * 128>>

\* c >> 8 of a 32-bit word
Shr8(c) == <<0, c[1], c[2], c[3]>>

\* the 32-bit word of a number below 2^31, as htonl stores it
htonl(n) ==
    <<(n \div 16777216) % 256, (n \div 65536) % 256, (n \div 256) % 256, n % 256>>

\* 0xffffffffL
AllOnes == <<255, 255, 255, 255>>

\* 0xedb88320L
CrcPoly == <<237, 184, 131, 32>>

\* crc 0, the seed of a fresh checksum
ZeroWord == <<0, 0, 0, 0>>

\* one round of the inner loop of make_crc_table
TableRound(c) == IF c[4] % 2 = 1 THEN Xor32(CrcPoly, Shr1(c)) ELSE Shr1(c)

\* one round on each word of a set
TableRounds(S) == {TableRound(c) : c \in S}

\* the inner loop of make_crc_table: its 8 rounds on c = n
TableEntry(n) ==
    CHOOSE c \in TableRounds(TableRounds(TableRounds(TableRounds(
                 TableRounds(TableRounds(TableRounds(TableRounds(
                 {<<0, 0, 0, n>>})))))))) : TRUE

\* the table make_crc_table fills on first use (@@ makes it a table of values)
crc_table == [n \in Byte |-> TableEntry(n)] @@ <<>>

RECURSIVE CrcLoopAfresh(_, _, _)
\* the loop of crc_afresh
CrcLoopAfresh(c, buf, n) ==
    IF n > Len(buf) THEN c
    ELSE CHOOSE r \in {CrcLoopAfresh(d, buf, n + 1)
                       : d \in {Xor32(crc_table[XorByte(c[4], buf[n])], Shr8(c))}} : TRUE

\* a crc that starts afresh whatever the running checksum handed to it
crc_afresh(seed, buf) ==
    CHOOSE r \in {Xor32(c, AllOnes) :
                    c \in {CrcLoopAfresh(AllOnes, buf, 1)}} : TRUE

\* the body of the loop of crc: the running value c after the byte b
CrcByte(c, b) == Xor32(crc_table[XorByte(c[4], b)], Shr8(c))

RECURSIVE CrcLoop(_, _, _)
\* the loop of crc over buf[n..], from the running value c (d ranges over
\* the one value of the next round)
CrcLoop(c, buf, n) ==
    IF n > Len(buf) THEN c
    ELSE CHOOSE r \in {CrcLoop(d, buf, n + 1) : d \in {CrcByte(c, buf[n])}} : TRUE

\* crc(crc, buf, len) with len = Len(buf): c0 is c before the loop, c after it
crc(seed, buf) ==
    CHOOSE r \in {Xor32(c, AllOnes) :
                    c \in {CrcLoop(c0, buf, 1) :
                             c0 \in {Xor32(s, AllOnes) : s \in {seed}}}} : TRUE

(***************************************************************************)
(* C strings.                                                              *)
(***************************************************************************)
\* the bytes of "tEXt"
tEXt == <<116, 69, 88, 116>>

\* the bytes of "Thumb::URI" (without the terminating NUL)
KeyURI == <<84, 104, 117, 109, 98, 58, 58, 85, 82, 73>>

\* the bytes of "Thumb::MTime" (without the terminating NUL)
KeyMTime == <<84, 104, 117, 109, 98, 58, 58, 77, 84, 105, 109, 101>>

\* sizeof of a string literal: its length and the terminating NUL
SizeOf(lit) == Len(lit) + 1

RECURSIVE Decimal(_)
\* g_strdup_printf("%lu", n)
Decimal(n) ==
    IF n < 10 THEN <<48 + n>>
    ELSE Append(Decimal(n \div 10), 48 + (n % 10))

(***************************************************************************)
(* Files.  A path of the cache holds a file or nothing; a file is its      *)
(* bytes.  An open descriptor reads and writes at its own offset.          *)
(***************************************************************************)
NoFile == [exists |-> FALSE, data |-> <<>>]

FileOf(bytes) == [exists |-> TRUE, data |-> bytes]

Min(a, b) == IF a < b THEN a ELSE b

\* the bytes read(fd, buf, n) returns at offset pos: fewer than n at the end
Read(f, pos, n) ==
    IF pos >= Len(f.data) THEN <<>>
    ELSE SubSeq(f.data, pos + 1, Min(pos + n, Len(f.data)))

\* buf with bytes stored at the 0-based index idx (memcpy, strcpy, a word store)
Poke(buf, idx, bytes) ==
    SubSeq(buf, 1, idx) \o bytes \o SubSeq(buf, idx + Len(bytes) + 1, Len(buf))

\* n zero bytes
Zeros(n) == [i \in 1..n |-> 0]

\* the file after write(fd, buf, Len(buf)) stored buf at offset off
WriteAt(f, off, buf) ==
    FileOf(SubSeq(f.data, 1, Min(off, Len(f.data))) \o Zeros(off - Len(f.data)) \o buf
           \o SubSeq(f.data, off + Len(buf) + 1, Len(f.data)))

(***************************************************************************)
(* check_png_attributes: the scanner.                                      *)
(***************************************************************************)
\* the 8 bytes every PNG file begins with
expected_header == <<137, 80, 78, 71, 13, 10, 26, 10>>

\* a 32-bit word below 2^31 as a number
WordToNat(w) == ((w[1] * 256 + w[2]) * 256 + w[3]) * 256 + w[4]

\* w + 4 in unsigned 32-bit arithmetic
WordPlus4(w) ==
    LET b4 == w[4] + 4
        b3 == w[3] + b4 \div 256
        b2 == w[2] + b3 \div 256
        b1 == w[1] + b2 \div 256
    IN  <<b1 % 256, b2 % 256, b3 % 256, b4 % 256>>

\* offsets from here on lie beyond the end of every file of the model
FarOffset == 1048576

\* the offset after lseek(fd, skip, SEEK_CUR) from pos, skip a 32-bit word;
\* an offset beyond FarOffset is held as FarOffset
SeekCur(pos, skip) ==
    IF skip[1] > 0 \/ skip[2] >= 16 \/ pos >= FarOffset THEN FarOffset
    ELSE Min(pos + WordToNat(skip), FarOffset)

\* 2^32 - w for a word w of 2^31 or more: how far back the offset -(2^32 - w)
\* leads
WordNegated(w) ==
    ((255 - w[1]) * 256 + (255 - w[2])) * 65536 + (255 - w[3]) * 256 + (255 - w[4]) + 1

\* the same with an off_t of 32 bits, to which a skip of 2^31 or more
\* converts as a negative offset: lseek moves back, or fails and leaves the
\* offset alone when that would lead before the start of the file
SeekCur32(pos, skip) ==
    IF skip[1] < 128 THEN SeekCur(pos, skip)
    ELSE IF WordNegated(skip) > pos THEN pos
    ELSE pos - WordNegated(skip)

\* the widths off_t has in a build
OffsetBits == {32, 64}

\* the offset lseek(fd, skip, SEEK_CUR) of line 195 leads to from pos: skip
\* is an unsigned of 32 bits, off_t has the width the build gives it
lseek(pos, skip, off_t) ==
    IF off_t = 32 THEN SeekCur32(pos, skip) ELSE SeekCur(pos, skip)

\* whether read(fd, data, header_length) at pos returns header_length bytes
ReadsAll(f, pos, header_length) ==
    /\ header_length[1] = 0
    /\ header_length[2] < 16
    /\ pos + WordToNat(header_length) <= Len(f.data)

\* strcmp(data, lit) of a buffer of Len(data) bytes that need hold no NUL:
\* "eq" or "ne" when the bytes of the buffer decide it, both when the
\* comparison runs off the end of the buffer, "crash" for the NULL that
\* g_malloc(0) returns
strcmp(data, lit) ==
    LET litz == Append(lit, 0)
        diff == {i \in 1..Len(litz) : i > Len(data) \/ data[i] # litz[i]}
        k    == CHOOSE i \in diff : \A j \in diff : i <= j
    IN  IF Len(data) = 0 THEN {"crash"}
        ELSE IF diff = {} THEN {"eq"}
        ELSE IF k <= Len(data) THEN {"ne"}
        ELSE {"eq", "ne"}

\* strncmp(&data[at], str, strlen(str)) == 0: TRUE or FALSE when the bytes
\* of the buffer decide it, both when the comparison runs off its end
strncmp(data, at, str) ==
    LET diff == {i \in 1..Len(str) : at + i > Len(data) \/ data[at + i] # str[i]}
        k    == CHOOSE i \in diff : \A j \in diff : i <= j
    IN  IF diff = {} THEN {TRUE}
        ELSE IF at + k <= Len(data) THEN {FALSE}
        ELSE {TRUE, FALSE}

\* the scanner on entry: nothing opened, no match yet
ScanEntry(file_uri, file_mtime) ==
    [pc |-> "open", file_name |-> "", file_uri |-> file_uri, file_mtime |-> file_mtime,
     fd |-> FALSE, pos |-> 0, file_uri_match |-> FALSE,
     file_mtime_match |-> FALSE, ret |-> "none", overread |-> FALSE, off_t |-> 64,
     rounds |-> 0]

\* return r, the descriptor closed
ScanReturn(s, r) == [s EXCEPT !.pc = "done", !.fd = FALSE, !.ret = r]

\* g_open and the file header
ScanOpen(f, s) ==
    IF ~f.exists THEN ScanReturn(s, "FALSE")
    ELSE IF Len(Read(f, 0, 8)) # 8 THEN ScanReturn(s, "FALSE")
    ELSE IF Read(f, 0, 8) # expected_header THEN ScanReturn(s, "FALSE")
    ELSE [s EXCEPT !.pc = "chunks", !.fd = TRUE, !.pos = 8]

\* a scanner that does not look at the checksum
CrcUnchecked(file_crc, data) == TRUE

\* whether the checksum stored after a tEXt payload is the one of the payload
CrcMatches(file_crc, data) == file_crc = crc(crc(ZeroWord, tEXt), data)

\* the two match flags after a tEXt chunk with a good checksum: the
\* outcomes of the comparisons of lines 178 to 185
MatchFlags(s, data) ==
    UNION {
        IF cu = "crash" THEN {[crash |-> TRUE, uri |-> s.file_uri_match, mtime |-> s.file_mtime_match]}
        ELSE IF cu = "eq" THEN
            {[crash |-> FALSE, uri |-> r, mtime |-> s.file_mtime_match] :
                r \in strncmp(data, SizeOf(KeyURI), s.file_uri)}
        ELSE UNION {
            IF cm = "eq" THEN
                {[crash |-> FALSE, uri |-> s.file_uri_match, mtime |-> r] :
                    r \in strncmp(data, SizeOf(KeyMTime), Decimal(s.file_mtime))}
            ELSE {[crash |-> FALSE, uri |-> s.file_uri_match, mtime |-> s.file_mtime_match]}
            : cm \in strcmp(data, KeyMTime)}
        : cu \in strcmp(data, KeyURI)}

\* whether the comparisons of lines 178 to 183 read a byte that is not one
\* of the Len(data) bytes of the payload
Overreads(s, data) ==
    \/ strcmp(data, KeyURI) \notin {{"eq"}, {"ne"}}
    \/ /\ "eq" \in strcmp(data, KeyURI)
       /\ strncmp(data, SizeOf(KeyURI), s.file_uri) = {TRUE, FALSE}
    \/ /\ "ne" \in strcmp(data, KeyURI)
       /\ \/ strcmp(data, KeyMTime) \notin {{"eq"}, {"ne"}}
          \/ /\ "eq" \in strcmp(data, KeyMTime)
             /\ strncmp(data, SizeOf(KeyMTime), Decimal(s.file_mtime)) = {TRUE, FALSE}

\* what g_malloc(header_length) of line 162 can come to: the buffer, or,
\* for a length no address space of 32 bits holds, the end of the process
g_malloc(header_length) ==
    IF header_length[1] >= 128 THEN {"buffer", "abort"} ELSE {"buffer"}

\* one round of the loop of line 153: the states it can end in (rounds is
\* the number of rounds begun, modulo 2)
ScanChunk(f, entered) ==
    LET s             == [entered EXCEPT !.rounds = (@ + 1) % 2]
        header_buf    == Read(f, s.pos, 8)
        header_length == SubSeq(header_buf, 1, 4)
        n             == WordToNat(header_length)
        data          == Read(f, s.pos + 8, n)
        file_crc      == Read(f, s.pos + 8 + n, 4)
        next          == [s EXCEPT !.pos = s.pos + 8 + n + 4]
    IN  IF Len(header_buf) # 8 THEN {ScanReturn(s, "FALSE")}
        ELSE IF SubSeq(header_buf, 5, 8) = tEXt THEN
            IF ~ReadsAll(f, s.pos + 8, header_length)
            THEN {IF a = "abort" THEN [s EXCEPT !.pc = "done", !.ret = "CRASH"]
                  ELSE ScanReturn(s, "FALSE") : a \in g_malloc(header_length)}
            ELSE IF Len(file_crc) # 4 THEN {ScanReturn(s, "FALSE")}
            ELSE IF CrcMatches(file_crc, data) THEN
                {LET read == [next EXCEPT !.overread = @ \/ Overreads(s, data)]
                 IN  IF m.crash THEN [read EXCEPT !.pc = "done", !.ret = "CRASH"]
                     ELSE IF m.uri /\ m.mtime
                          THEN ScanReturn([read EXCEPT !.file_uri_match = TRUE,
                                                       !.file_mtime_match = TRUE], "TRUE")
                     ELSE [read EXCEPT !.file_uri_match = m.uri,
                                       !.file_mtime_match = m.mtime]
                 : m \in MatchFlags(s, data)}
            ELSE {next}
        ELSE {[s EXCEPT !.pos = lseek(s.pos + 8, WordPlus4(header_length), s.off_t)]}

\* one step of check_png_attributes on the file f
ScanStep(f, s) == IF s.pc = "open" THEN {ScanOpen(f, s)} ELSE ScanChunk(f, s)

RECURSIVE ScanRun(_, _)
\* the values check_png_attributes can return from the state s on
ScanRun(f, s) ==
    IF s.pc = "done" THEN {s.ret}
    ELSE UNION {ScanRun(f, t) : t \in ScanStep(f, s)}

\* the values check_png_attributes(file_name, file_uri, file_mtime) can return
check_png_attributes(f, file_uri, file_mtime) ==
    UNION {ScanRun(f, [ScanEntry(file_uri, file_mtime) EXCEPT !.off_t = b])
           : b \in OffsetBits}

(***************************************************************************)
(* png_writer: the write callback that injects the two tEXt chunks.        *)
(***************************************************************************)
\* the offset after the file header and IHDR
inject_pos == 8 + (4 + 4 + 4 + 13)

\* a chunk whose checksum leaves out the chunk type
TextChunkCrcOfPayload(key, value) ==
    htonl(SizeOf(key) + Len(value)) \o tEXt \o key \o <<0>> \o value
    \o crc(ZeroWord, key \o <<0>> \o value)

\* the chunk lines 348 to 354 (and 360 to 366) build in output: the length,
\* "tEXt" and the key with its NUL, the value, the checksum over all but
\* the length
TextChunk(key, value) ==
    LET value_length  == Len(value)
        output_length == 4 + 4 + SizeOf(key) + value_length + 4
        at            == 4 + 4 + SizeOf(key)
        o0 == [i \in 1..output_length |-> 0]
        o1 == Poke(o0, 0, htonl(SizeOf(key) + value_length))
        o2 == Poke(o1, 4, tEXt \o key \o <<0>>)
        o3 == Poke(o2, at, Append(value, 0))
        o4 == Poke(o3, at + value_length,
                   crc(ZeroWord, SubSeq(o3, 5, at + value_length)))
    IN  SubSeq(o4, 1, output_length)

\* a writer that injects only on a call that goes past inject_pos
InjectsPast(bytes_written, length) ==
    bytes_written < inject_pos /\ bytes_written + length > inject_pos

\* whether this call is the one that reaches inject_pos
Injects(bytes_written, length) ==
    bytes_written < inject_pos /\ bytes_written + length >= inject_pos

\* the buffers png_writer(info, data, length) hands to write, in order: on
\* the call that injects, data up to inject_pos and the two chunks; then what
\* is left of data, if anything
WriterBuffers(info, data) ==
    LET bw   == info.bytes_written
        inj  == Injects(bw, Len(data))
        rest == IF inj THEN SubSeq(data, inject_pos - bw + 1, Len(data)) ELSE data
    IN  (IF inj THEN <<SubSeq(data, 1, inject_pos - bw),
                       TextChunk(KeyURI, info.Thumb_URI),
                       TextChunk(KeyMTime, info.Thumb_MTime)>>
         ELSE <<>>)
        \o (IF Len(rest) > 0 THEN <<rest>> ELSE <<>>)

\* how many writes png_writer(info, data, length) makes
NumWrites(bytes_written, length) ==
    IF Injects(bytes_written, length)
    THEN 3 + (IF bytes_written + length > inject_pos THEN 1 ELSE 0)
    ELSE IF length > 0 THEN 1 ELSE 0

RECURSIVE Concat(_, _)
\* the first k buffers of bufs, one after the other
Concat(bufs, k) == IF k = 0 THEN <<>> ELSE Concat(bufs, k - 1) \o bufs[k]

\* info.bytes_written when png_writer returns after done of its writes:
\* inject_pos once the first write of the injecting call is through (line
\* 346), and the length of what was left of data on top once all are (line 377)
BytesWritten(bytes_written, length, done) ==
    IF done = NumWrites(bytes_written, length) THEN bytes_written + length
    ELSE IF Injects(bytes_written, length) /\ done >= 1 THEN inject_pos
    ELSE bytes_written

\* png_writer(info, data, length) on the open file at offset off, when its
\* write number failAt fails (0: none does): the writes before that one
\* store their buffers, one after the other, and the call returns
png_writer(info, file, off, data, failAt) ==
    LET done == IF failAt = 0 THEN NumWrites(info.bytes_written, Len(data))
                ELSE failAt - 1
    IN  CHOOSE r \in
          {[status |-> IF failAt = 0 THEN "SUCCESS" ELSE "WRITE_ERROR",
            info   |-> [info EXCEPT !.bytes_written =
                                       BytesWritten(@, Len(data), done)],
            file   |-> WriteAt(file, off, stored),
            off    |-> off + Len(stored)]
           : stored \in {Concat(WriterBuffers(info, data), done)}} : TRUE

(***************************************************************************)
(* The source file, its file_t, and the encoder.                           *)
(***************************************************************************)
\* the bytes of "/" (G_DIR_SEPARATOR_S) and of "file://"
DirSeparator == <<47>>

FileScheme == <<102, 105, 108, 101, 58, 47, 47>>

\* the base names of the model: "a", "aa", ... up to MaxUriLen letters, and "b"
BaseNames == {[i \in 1..n |-> 97] : n \in 1..MaxUriLen} \cup {<<98>>}

\* the absolute paths of the model
FileNames == {DirSeparator \o b : b \in BaseNames}

\* the modification times of the model: 0, 1, and the two-digit ones
MTimes == {m \in 0..MaxMTime : m <= 1 \/ m >= 10}

\* the part of name after its last "/", the whole of it when it has none
\* (g_strrstr, lines 82 to 95)
Basename(name) ==
    LET seps == {i \in 1..Len(name) : name[i] = DirSeparator[1]}
        last == CHOOSE i \in seps : \A j \in seps : j <= i
    IN  IF seps = {} THEN name ELSE SubSeq(name, last + 1, Len(name))

\* a get_local_filename that does not look at the memory flag
get_local_filename_of_any(f) ==
    IF Basename(f.file_name) # Basename(f.display_name) THEN <<>> ELSE f.file_name

\* get_local_filename: <<>> for NULL, else the path of file_name (the file
\* names of the model are absolute local paths, which g_file_get_path
\* returns as they are)
get_local_filename(f) ==
    IF f.memory THEN <<>>
    ELSE IF Basename(f.file_name) # Basename(f.display_name) THEN <<>>
    ELSE f.file_name

\* g_strdup_printf("file://%s", local_filename)
FileUri(local_filename) == FileScheme \o local_filename

\* the subdirectories of a cache directory
thumbnail_levels == <<"large", "normal">>

\* a PNG chunk as the encoder writes it: length, type, payload, checksum
PngChunk(type, payload) ==
    htonl(Len(payload)) \o type \o payload \o crc(ZeroWord, type \o payload)

\* the stream cairo_surface_write_to_png_stream hands to the write callback
\* for a surface of width x height with n bytes of image data
PngStream(width, height, n) ==
    expected_header
    \o PngChunk(<<73, 72, 68, 82>>, htonl(width) \o htonl(height) \o <<8, 6, 0, 0, 0>>)
    \o PngChunk(<<73, 68, 65, 84>>, [i \in 1..n |-> 120])
    \o PngChunk(<<73, 69, 78, 68>>, <<>>)

\* the tier of a thumbnail of this size: 0 large, 1 normal, -1 none
\* (lines 389 to 397)
ThumbnailLevel(width, height) ==
    IF width = 256 \/ height = 256 THEN 0
    ELSE IF width = 128 \/ height = 128 THEN 1
    ELSE -1

(***************************************************************************)
(* The state.                                                              *)
(***************************************************************************)
VARIABLES
    file,    \* the file_t: file_name, display_name, memory flag, thumbnail
    source,  \* the source file on disk: whether stat finds it, its mtime,
             \* whether a directory .sh_thumbnails lies beside it
    disk,    \* the cache: what each candidate path holds
    st,      \* store_thumbnail_to_cache: its position and locals
    sc,      \* check_png_attributes: its position and locals
    ld,      \* load_thumbnail_from_cache: its position and locals
    peer,    \* store_thumbnail_to_cache in another process, for the same
             \* source: its position and locals, its thumbnail, its stat
    cs       \* calls of crc: their buffers and their results

vars == <<file, source, disk, st, sc, ld, peer, cs>>

\* the candidate paths of the one source file of the model
Paths == {"large", "normal", "sh_large", "sh_normal"}

\* no call of crc made yet
CrcIdle ==
    [pc |-> "idle", A |-> <<>>, B |-> <<>>, first |-> ZeroWord,
     chained |-> ZeroWord, whole |-> ZeroWord]

StoreIdle ==
    [pc |-> "idle", level |-> -1, path |-> "", fd |-> -1, off |-> 0,
     info |-> [bytes_written |-> 0, Thumb_URI |-> <<>>, Thumb_MTime |-> <<>>],
     stream |-> <<>>, sent |-> 0, retval |-> "none", before |-> NoFile,
     failAt |-> 0, status |-> "none", orphan |-> FALSE, open |-> FALSE]

\* the store of the other process before it begins: the size of its
\* thumbnail and the modification time its stat will find
PeerIdle(thumbnail, mtime) ==
    [pc |-> "idle", thumbnail |-> thumbnail, mtime |-> mtime, path |-> "", fd |-> -1,
     off |-> 0, info |-> [bytes_written |-> 0, Thumb_URI |-> <<>>, Thumb_MTime |-> <<>>],
     stream |-> <<>>, sent |-> 0, retval |-> "none", orphan |-> FALSE]

\* the arguments of a call of load_thumbnail_from_cache that has not begun
LoadIdle(width, height) ==
    [pc |-> "idle", width |-> width, height |-> height, j |-> 0, file_mtime |-> 0,
     tested |-> <<>>, examined |-> <<>>, retval |-> "none", thumbnail |-> <<>>,
     freed |-> FALSE]

ScanIdle ==
    [pc |-> "idle", file_name |-> "", file_uri |-> <<>>, file_mtime |-> 0,
     fd |-> FALSE, pos |-> 0, file_uri_match |-> FALSE,
     file_mtime_match |-> FALSE, ret |-> "none", overread |-> FALSE, off_t |-> 64,
     rounds |-> 0]

(***************************************************************************)
(* store_thumbnail_to_cache.                                               *)
(***************************************************************************)
\* a store in the state s after g_unlink(path) in another process: a
\* descriptor it holds on that path is an orphan from then on, the file it
\* writes to has no name
Orphaned(s, path) ==
    IF s.pc \in {"encoding", "error"} /\ s.path = path
    THEN [s EXCEPT !.orphan = TRUE]
    ELSE s

\* a g_close inside the block of line 419
StoreCloseWritten(s) == IF s.fd > 0 THEN [s EXCEPT !.open = FALSE] ELSE s

\* g_close(file_fd, NULL) of line 428
StoreClose(s) == [s EXCEPT !.open = FALSE]

\* what the function returns with: its value, all else as it stands
StoreReturn(s, r) == [s EXCEPT !.pc = "done", !.retval = r]

\* the file a path holds after g_open(path, O_CREAT | O_WRONLY, 0600)
OpenCreate(f) == IF f.exists THEN f ELSE FileOf(<<>>)

\* lines 383 to 421: the size test, the local file name, stat, the name of
\* the thumbnail file, and g_open, which returns -1, 0 or a descriptor above 0
StoreBegin ==
    /\ st.pc = "idle"
    /\ LET width  == file.thumbnail[1]
           height == file.thumbnail[2]
           thumbnail_level == ThumbnailLevel(width, height)
           local_filename == get_local_filename(file)
           thumbnail_file == thumbnail_levels[thumbnail_level + 1]
       IN  IF thumbnail_level = -1 \/ local_filename = <<>>
           THEN st' = StoreReturn(st, "FALSE") /\ disk' = disk
           ELSE \E file_mtime \in (IF source.exists THEN {source.mtime} ELSE MTimes),
                   file_fd \in {-1, 0, 3}, n \in 0..MaxIdat :
                  LET opened == [st EXCEPT !.level = thumbnail_level,
                                           !.path = thumbnail_file,
                                           !.fd = file_fd,
                                           !.open = file_fd >= 0,
                                           !.before = disk[thumbnail_file]]
                  IN  /\ disk' = IF file_fd >= 0
                                 THEN [disk EXCEPT ![thumbnail_file] = OpenCreate(@)]
                                 ELSE disk
                      /\ st' = IF file_fd > 0
                               THEN [opened EXCEPT
                                       !.pc = "encoding",
                                       !.info = [bytes_written |-> 0,
                                                 Thumb_URI |-> FileUri(local_filename),
                                                 Thumb_MTime |-> Decimal(file_mtime)],
                                       !.stream = PngStream(width, height, n)]
                               ELSE StoreReturn(StoreClose(opened), "TRUE")
    /\ UNCHANGED <<cs, file, source, sc, ld, peer>>

\* the lengths of the next write call when left bytes remain
CallLengths(left) == (0..Min(MaxCall, left)) \cup {left}

\* the writes of a call that can fail, by their number (0: none does)
FailPoints(bytes_written, length) == 0..NumWrites(bytes_written, length)

\* the encoder calls png_writer with its next bytes; a write error ends
\* the encoding.  The writes of an orphan descriptor reach no path.
WriterCall ==
    /\ st.pc = "encoding"
    /\ \E length \in CallLengths(Len(st.stream) - st.sent) :
       \E failAt \in FailPoints(st.info.bytes_written, length) :
       \E r \in {png_writer(st.info, disk[st.path], st.off,
                             SubSeq(st.stream, st.sent + 1, st.sent + length), failAt)} :
          /\ disk' = IF st.orphan THEN disk ELSE [disk EXCEPT ![st.path] = r.file]
          /\ st' = [st EXCEPT !.info = r.info, !.off = r.off,
                              !.sent = IF r.status = "SUCCESS" THEN @ + length ELSE @,
                              !.pc = IF r.status = "SUCCESS" THEN "encoding" ELSE "error",
                              !.failAt = failAt, !.status = r.status]
    /\ UNCHANGED <<cs, file, source, sc, ld, peer>>

\* the encoder gives up for a reason of its own
EncoderError ==
    /\ st.pc = "encoding"
    /\ st.sent < Len(st.stream)
    /\ st' = [st EXCEPT !.pc = "error"]
    /\ UNCHANGED <<cs, file, source, disk, sc, ld, peer>>

\* an error path that leaves the file where it is
StoreAbortKeep ==
    /\ st.pc = "error"
    /\ st' = [st EXCEPT !.pc = "done", !.retval = "FALSE"]
    /\ UNCHANGED <<cs, file, source, disk, sc, ld, peer>>

\* lines 422 to 434 when the encoder reports an error: g_unlink, FALSE.
\* The writer's record goes with the function's frame.
StoreAbort ==
    /\ st.pc = "error"
    /\ disk' = [disk EXCEPT ![st.path] = NoFile]
    /\ st' = StoreReturn(StoreClose([StoreIdle EXCEPT
                                        !.level = st.level, !.path = st.path,
                                        !.fd = st.fd, !.before = st.before,
                                        !.failAt = st.failAt, !.status = st.status,
                                        !.open = st.open]), "FALSE")
    /\ peer' = Orphaned(peer, st.path)
    /\ UNCHANGED <<cs, file, source, sc, ld>>

\* lines 422 to 434 when the encoder has written all of its stream: TRUE
StoreEnd ==
    /\ st.pc = "encoding"
    /\ st.sent = Len(st.stream)
    /\ st' = StoreReturn(StoreClose(st), "TRUE")
    /\ UNCHANGED <<cs, file, source, disk, sc, ld, peer>>

(***************************************************************************)
(* store_thumbnail_to_cache in the other process: the same lines, on its   *)
(* own thumbnail, with its own descriptor and its own offset.              *)
(***************************************************************************)
\* lines 383 to 421 in the other process
PeerBegin ==
    /\ peer.pc = "idle"
    /\ LET width  == peer.thumbnail[1]
           height == peer.thumbnail[2]
           thumbnail_level == ThumbnailLevel(width, height)
           local_filename == get_local_filename(file)
           thumbnail_file == thumbnail_levels[thumbnail_level + 1]
       IN  IF thumbnail_level = -1 \/ local_filename = <<>>
           THEN peer' = StoreReturn(peer, "FALSE") /\ disk' = disk
           ELSE \E file_fd \in {-1, 0, 3}, n \in 0..MaxIdat :
                  LET opened == [peer EXCEPT !.path = thumbnail_file, !.fd = file_fd]
                  IN  /\ disk' = IF file_fd >= 0
                                 THEN [disk EXCEPT ![thumbnail_file] = OpenCreate(@)]
                                 ELSE disk
                      /\ peer' = IF file_fd > 0
                                 THEN [opened EXCEPT
                                         !.pc = "encoding",
                                         !.info = [bytes_written |-> 0,
                                                   Thumb_URI |-> FileUri(local_filename),
                                                   Thumb_MTime |-> Decimal(peer.mtime)],
                                         !.stream = PngStream(width, height, n)]
                                 ELSE StoreReturn(opened, "TRUE")
    /\ UNCHANGED <<cs, file, source, st, sc, ld>>

\* the lengths of the next write call of the other process's encoder, which
\* hands over all it has left
PeerCallLengths(left) == {left}

\* a call of png_writer in the other process
PeerWriterCall ==
    /\ peer.pc = "encoding"
    /\ \E length \in PeerCallLengths(Len(peer.stream) - peer.sent) :
       \E failAt \in FailPoints(peer.info.bytes_written, length) :
       \E r \in {png_writer(peer.info, disk[peer.path], peer.off,
                             SubSeq(peer.stream, peer.sent + 1, peer.sent + length),
                             failAt)} :
          /\ disk' = IF peer.orphan THEN disk ELSE [disk EXCEPT ![peer.path] = r.file]
          /\ peer' = [peer EXCEPT
                        !.info = r.info, !.off = r.off,
                        !.sent = IF r.status = "SUCCESS" THEN @ + length ELSE @,
                        !.pc = IF r.status = "SUCCESS" THEN "encoding" ELSE "error"]
    /\ UNCHANGED <<cs, file, source, st, sc, ld>>

\* the encoder of the other process gives up for a reason of its own
PeerEncoderError ==
    /\ peer.pc = "encoding"
    /\ peer.sent < Len(peer.stream)
    /\ peer' = [peer EXCEPT !.pc = "error"]
    /\ UNCHANGED <<cs, file, source, disk, st, sc, ld>>

\* lines 422 to 434 in the other process when its encoder reports an error
PeerAbort ==
    /\ peer.pc = "error"
    /\ disk' = [disk EXCEPT ![peer.path] = NoFile]
    /\ peer' = StoreReturn([PeerIdle(peer.thumbnail, peer.mtime)
                               EXCEPT !.path = peer.path, !.fd = peer.fd], "FALSE")
    /\ st' = Orphaned(st, peer.path)
    /\ UNCHANGED <<cs, file, source, sc, ld>>

\* lines 422 to 434 in the other process when all of its stream is written
PeerEnd ==
    /\ peer.pc = "encoding"
    /\ peer.sent = Len(peer.stream)
    /\ peer' = StoreReturn(peer, "TRUE")
    /\ UNCHANGED <<cs, file, source, disk, st, sc, ld>>

(***************************************************************************)
(* check_png_attributes, called on a cache file once the store is over.    *)
(***************************************************************************)
\* the URI strings of the model
FileUris == {FileUri(n) : n \in FileNames}

\* check_png_attributes(path, u, m) on the path the store chose, from its
\* first line to its return
Check ==
    /\ st.pc = "done"
    /\ st.path # ""
    /\ sc.pc = "idle"
    /\ \E u \in FileUris, m \in MTimes :
          \E r \in check_png_attributes(disk[st.path], u, m) :
             sc' = [ScanReturn(ScanEntry(u, m), r) EXCEPT !.file_name = st.path]
    /\ UNCHANGED <<cs, file, source, disk, st, ld, peer>>

(***************************************************************************)
(* check_png_attributes, step by step, on the file sc.file_name.           *)
(***************************************************************************)
\* g_open and the file header (lines 134 to 150)
ScanOpenStep ==
    /\ sc.pc = "open"
    /\ sc' = ScanOpen(disk[sc.file_name], sc)
    /\ UNCHANGED <<cs, file, source, disk, st, ld, peer>>

\* one round of the loop of line 153
ScanChunkStep ==
    /\ sc.pc = "chunks"
    /\ sc' \in ScanChunk(disk[sc.file_name], sc)
    /\ UNCHANGED <<cs, file, source, disk, st, ld, peer>>

(***************************************************************************)
(* load_thumbnail and load_thumbnail_from_cache.                           *)
(***************************************************************************)
\* the bytes of "IHDR" and of "IEND"
IHDR == <<73, 72, 68, 82>>

IEND == <<73, 69, 78, 68>>

\* cairo_image_surface_create_from_png and the size of its surface: <<>>
\* when the status is not CAIRO_STATUS_SUCCESS.  A file decodes when it
\* begins with the file header and an IHDR chunk and ends with an IEND chunk.
Decode(f) ==
    IF /\ Len(f.data) >= inject_pos + 12
       /\ SubSeq(f.data, 1, 8) = expected_header
       /\ SubSeq(f.data, 13, 16) = IHDR
       /\ SubSeq(f.data, Len(f.data) - 7, Len(f.data) - 4) = IEND
    THEN <<WordToNat(SubSeq(f.data, 17, 20)), WordToNat(SubSeq(f.data, 21, 24))>>
    ELSE <<>>

\* the size of the surface load_thumbnail returns for a decoded surface of
\* the size actual (lines 215 to 245): actual itself when one of its edges
\* is the edge asked for, else width and height times
\* scale_factor = fmin(1, fmin(actual_width / width, actual_height / height)),
\* cut to whole numbers
Scaled(actual, width, height) ==
    LET actual_width  == actual[1]
        actual_height == actual[2]
    IN  IF actual_width = width \/ actual_height = height THEN actual
        ELSE IF actual_width >= width /\ actual_height >= height
             THEN <<width, height>>
        ELSE IF actual_width * height <= actual_height * width
             THEN <<(width * actual_width) \div width, (height * actual_width) \div width>>
        ELSE <<(width * actual_height) \div height, (height * actual_height) \div height>>

\* what load_thumbnail(file_name, file_uri, file_mtime, width, height) can
\* come to on the file f: the size of the surface it returns, <<>> for NULL,
\* or a crash of the scanner
load_thumbnail(f, file_uri, file_mtime, width, height) ==
    {IF r = "CRASH" THEN [crash |-> TRUE, thumbnail |-> <<>>]
     ELSE IF r = "FALSE" \/ Decode(f) = <<>> THEN [crash |-> FALSE, thumbnail |-> <<>>]
     ELSE [crash |-> FALSE, thumbnail |-> Scaled(Decode(f), width, height)]
     : r \in check_png_attributes(f, file_uri, file_mtime)}

\* loops that begin with large whatever the size asked for
FirstLevelLarge(width, height) == 0

\* the first j of the loops of lines 270 and 299
FirstLevel(width, height) == IF width > 128 \/ height > 128 THEN 0 ELSE 1

\* the subdirectories of .sh_thumbnails (line 300)
shared_levels == <<"sh_large", "sh_normal">>

\* what the bytes of a string can be read as once g_free has given them
\* back: the string, the empty string, another string
Freed(str) == {str, <<>>, <<120>>}

\* what the function returns with
LoadReturn(l, r) == [l EXCEPT !.pc = "done", !.retval = r]

\* lines 249 to 270: the size test, the local file name, stat (whose result
\* is not looked at), and the first j
LoadBegin ==
    /\ ld.pc = "idle"
    /\ IF ld.width > 256 \/ ld.height > 256 THEN ld' = LoadReturn(ld, "FALSE")
       ELSE IF get_local_filename(file) = <<>> THEN ld' = LoadReturn(ld, "FALSE")
       ELSE \E file_mtime \in (IF source.exists THEN {source.mtime} ELSE MTimes) :
               ld' = [ld EXCEPT !.pc = "primary", !.file_mtime = file_mtime,
                                !.j = FirstLevel(ld.width, ld.height)]
    /\ UNCHANGED <<cs, file, source, disk, st, sc, peer>>

\* a lookup that removes the candidate it turned down
ExaminedEvicting(d, path, hit) == IF hit THEN d ELSE [d EXCEPT ![path] = NoFile]

\* the cache after a candidate was examined: check_png_attributes opens it
\* with O_RDONLY (line 134) and cairo reads it (line 212)
Examined(d, path, hit) == d

\* one round of a loop over the candidates (lines 271 to 284 and 300 to
\* 313) on the candidate path, validated against file_uri
LoadCandidate(path, file_uri, allocated) ==
    IF disk[path].exists
    THEN \E o \in load_thumbnail(disk[path], file_uri, ld.file_mtime, ld.width, ld.height) :
            LET seen == [ld EXCEPT !.tested = Append(@, path),
                                   !.examined = Append(@, [path |-> path,
                                                           hit |-> o.thumbnail # <<>>,
                                                           uri |-> file_uri,
                                                           allocated |-> allocated])]
            IN  /\ ld' = IF o.crash THEN [seen EXCEPT !.pc = "crashed"]
                         ELSE IF o.thumbnail # <<>> THEN LoadReturn(seen, "TRUE")
                         ELSE [seen EXCEPT !.j = @ + 1]
                /\ file' = IF ~o.crash /\ o.thumbnail # <<>>
                           THEN [file EXCEPT !.thumbnail = o.thumbnail]
                           ELSE file
                /\ disk' = Examined(disk, path, o.thumbnail # <<>>)
    ELSE /\ ld' = [ld EXCEPT !.tested = Append(@, path), !.j = @ + 1]
         /\ file' = file
         /\ disk' = disk

\* one round of the loop of line 270
LoadPrimary ==
    /\ ld.pc = "primary"
    /\ ld.j < 2
    /\ LoadCandidate(thumbnail_levels[ld.j + 1], FileUri(get_local_filename(file)), TRUE)
    /\ UNCHANGED <<cs, source, st, sc, peer>>

\* lines 287 to 299: the test for the directory .sh_thumbnails
LoadSharedDir ==
    /\ ld.pc = "primary"
    /\ ld.j = 2
    /\ ld' = IF source.shared
             THEN [ld EXCEPT !.pc = "shared", !.j = FirstLevel(ld.width, ld.height),
                             !.freed = TRUE]
             ELSE LoadReturn(ld, "FALSE")
    /\ UNCHANGED <<cs, file, source, disk, st, sc, peer>>

\* one round of the loop of line 299: file_basename was freed at line 297
LoadShared ==
    /\ ld.pc = "shared"
    /\ ld.j < 2
    /\ \E file_basename \in (IF ld.freed
                              THEN Freed(Basename(get_local_filename(file)))
                              ELSE {Basename(get_local_filename(file))}) :
          LoadCandidate(shared_levels[ld.j + 1], file_basename, ~ld.freed)
    /\ UNCHANGED <<cs, source, st, sc, peer>>

\* lines 316 to 320
LoadEnd ==
    /\ ld.pc = "shared"
    /\ ld.j = 2
    /\ ld' = LoadReturn(ld, "FALSE")
    /\ UNCHANGED <<cs, file, source, disk, st, sc, peer>>

(***************************************************************************)
(* The specifications.                                                     *)
(***************************************************************************)
\* the widths and heights of the thumbnails of the model
Dims == {128, 200, 256}

ThumbSizes == Dims \X Dims

\* the display names of a file: its file name, its base name, another name
DisplayNames(file_name) == {file_name, Basename(file_name), <<120>>}

\* a thumbnail file as the Thumbnail Managing Standard describes it: a PNG
\* of width x height with n bytes of image data and the two tEXt chunks
\* after its IHDR
Entry(uri, mtime, width, height, n) ==
    CHOOSE e \in {SubSeq(S, 1, inject_pos)
                  \o TextChunk(KeyURI, uri)
                  \o TextChunk(KeyMTime, Decimal(mtime))
                  \o SubSeq(S, inject_pos + 1, Len(S))
                  : S \in {PngStream(width, height, n)}} : TRUE

\* an entry another thumbnailer left behind for the same source: longer
\* than any stream of the model, with a modification time of its own
OldEntry == Entry(FileUri(DirSeparator \o <<97>>), 7, 256, 256, MaxIdat + 3)

\* what a path of the cache can hold before the program runs
OldFiles == {NoFile, FileOf(<<>>), FileOf(OldEntry)}

\* a source file with each name and time, a thumbnail of each tier, an
\* empty cache
Init ==
    /\ \E n \in FileNames, t \in {<<256, 200>>, <<128, 128>>} :
          file = [file_name |-> n, display_name |-> n, memory |-> FALSE, thumbnail |-> t]
    /\ source \in {[exists |-> TRUE, mtime |-> m, shared |-> FALSE] : m \in MTimes}
    /\ \E o \in {NoFile, FileOf(<<>>)} :
          disk = [p \in Paths |-> IF p \in {"large", "normal"} THEN o ELSE NoFile]
    /\ st = StoreIdle
    /\ cs = CrcIdle
    /\ peer = PeerIdle(<<128, 128>>, 0)
    /\ sc = ScanIdle
    /\ ld = LoadIdle(128, 128)

Next ==
    \/ StoreBegin
    \/ WriterCall
    \/ EncoderError
    \/ StoreAbort
    \/ StoreEnd
    \/ Check

Spec == Init /\ [][Next]_vars

\* one source file, a thumbnail of each size, each old content of the cache
InitSizes ==
    /\ \E d \in DisplayNames(DirSeparator \o <<97>>), t \in ThumbSizes :
          file = [file_name |-> DirSeparator \o <<97>>, display_name |-> d,
                  memory |-> FALSE, thumbnail |-> t]
    /\ source \in {[exists |-> TRUE, mtime |-> 1, shared |-> FALSE],
                   [exists |-> FALSE, mtime |-> 0, shared |-> FALSE]}
    /\ \E o \in OldFiles :
          disk = [p \in Paths |-> IF p \in {"large", "normal"} THEN o ELSE NoFile]
    /\ st = StoreIdle
    /\ cs = CrcIdle
    /\ peer = PeerIdle(<<128, 128>>, 0)
    /\ sc = ScanIdle
    /\ ld = LoadIdle(128, 128)

SpecSizes == InitSizes /\ [][Next]_vars

(***************************************************************************)
(* Lookups in a cache that other programs have filled.                     *)
(***************************************************************************)
\* the one source file of these specifications: "/a"
SourceName == DirSeparator \o <<97>>

\* what a candidate path can hold for a source whose modification time is
\* 1: nothing, an entry of that time, an entry of another time, an entry
\* of that time cut off before its IEND chunk
CacheFiles(uri, width, height) ==
    {NoFile,
     FileOf(Entry(uri, 1, width, height, 0)),
     FileOf(Entry(uri, 0, width, height, 0))}
    \cup {FileOf(SubSeq(e, 1, Len(e) - 12)) : e \in {Entry(uri, 1, width, height, 0)}}

\* the sizes asked of load_thumbnail_from_cache
Requests == {<<128, 128>>, <<200, 100>>, <<100, 300>>, <<128, 64>>}

InitLoad ==
    /\ file = [file_name |-> SourceName, display_name |-> SourceName,
               memory |-> FALSE, thumbnail |-> <<>>]
    /\ source \in [exists : {TRUE}, mtime : {1}, shared : BOOLEAN]
                  \cup [exists : {FALSE}, mtime : {0}, shared : BOOLEAN]
    /\ \E l \in CacheFiles(FileUri(SourceName), 256, 200),
          n \in CacheFiles(FileUri(SourceName), 128, 100) :
       \E sl \in (IF source.shared THEN CacheFiles(Basename(SourceName), 256, 200)
                  ELSE {NoFile}),
          sn \in (IF source.shared THEN CacheFiles(Basename(SourceName), 128, 100)
                  ELSE {NoFile}) :
          disk = [p \in Paths |-> IF p = "large" THEN l
                                  ELSE IF p = "normal" THEN n
                                  ELSE IF p = "sh_large" THEN sl ELSE sn]
    /\ st = StoreIdle
    /\ cs = CrcIdle
    /\ peer = PeerIdle(<<128, 128>>, 0)
    /\ sc = ScanIdle
    /\ \E r \in Requests : ld = LoadIdle(r[1], r[2])

NextLoad ==
    \/ LoadBegin
    \/ LoadPrimary
    \/ LoadSharedDir
    \/ LoadShared
    \/ LoadEnd

SpecLoad == InitLoad /\ [][NextLoad]_vars

(***************************************************************************)
(* The scanner on files made of a few chunks, some with a bad checksum.    *)
(***************************************************************************)
\* most chunks after the file header
MaxChunks == 3

\* a chunk with one bit of its checksum flipped
Corrupt(chunk) == [chunk EXCEPT ![Len(chunk)] = XorByte(@, 1)]

\* the chunks of the files: one that is no tEXt chunk, Thumb::URI of the
\* source and Thumb::MTime of its time, each whole and with a bad checksum,
\* and Thumb::URI of another file
ChunkKinds ==
    {PngChunk(IEND, <<>>),
     TextChunk(KeyURI, FileUri(SourceName)),
     Corrupt(TextChunk(KeyURI, FileUri(SourceName))),
     TextChunk(KeyMTime, Decimal(1)),
     Corrupt(TextChunk(KeyMTime, Decimal(1))),
     TextChunk(KeyURI, FileUri(DirSeparator \o <<98>>))}

RECURSIVE ChunkSeqs(_)
\* the bytes of up to n chunks
ChunkSeqs(n) ==
    IF n = 0 THEN {<<>>}
    ELSE {<<>>} \cup {c \o r : c \in ChunkKinds, r \in ChunkSeqs(n - 1)}

\* the files: the header and chunks, whole or two bytes short; no file; a
\* file shorter than the header
ScanFiles ==
    LET whole == {expected_header \o b : b \in ChunkSeqs(MaxChunks)}
    IN  {FileOf(d) : d \in whole}
        \cup {FileOf(SubSeq(d, 1, Len(d) - 2)) : d \in whole}
        \cup {NoFile}

InitScan ==
    /\ file = [file_name |-> SourceName, display_name |-> SourceName,
               memory |-> FALSE, thumbnail |-> <<>>]
    /\ source = [exists |-> TRUE, mtime |-> 1, shared |-> FALSE]
    /\ \E f \in ScanFiles : disk = [p \in Paths |-> IF p = "large" THEN f ELSE NoFile]
    /\ st = StoreIdle
    /\ cs = CrcIdle
    /\ peer = PeerIdle(<<128, 128>>, 0)
    /\ \E b \in OffsetBits :
          sc = [ScanEntry(FileUri(SourceName), 1) EXCEPT !.file_name = "large",
                                                         !.off_t = b]
    /\ ld = LoadIdle(128, 128)

NextScan ==
    \/ ScanOpenStep
    \/ ScanChunkStep

SpecScan == InitScan /\ [][NextScan]_vars

(***************************************************************************)
(* The properties.                                                         *)
(***************************************************************************)
\* the stream S with the two tEXt chunks for uri and mtime after its first
\* inject_pos bytes, as soon as it has that many
Spliced(S, uri, mtime) ==
    IF Len(S) < inject_pos THEN S
    ELSE SubSeq(S, 1, inject_pos)
         \o PngChunk(tEXt, KeyURI \o <<0>> \o uri)
         \o PngChunk(tEXt, KeyMTime \o <<0>> \o mtime)
         \o SubSeq(S, inject_pos + 1, Len(S))

\* a store that opened its file, found it empty or created it, and wrote
\* all of the encoder's stream
StoredAfresh ==
    /\ st.pc = "done"
    /\ st.fd > 0
    /\ st.retval = "TRUE"
    /\ st.before.data = <<>>

\* the scanner has returned, and it was asked for the URI and the time the
\* store wrote
AskedForStored ==
    /\ sc.pc = "done"
    /\ sc.file_uri = st.info.Thumb_URI
    /\ Decimal(sc.file_mtime) = st.info.Thumb_MTime

\* C1: a file the writer wrote in full for the URI U and the time M, into
\* an empty file, is reported valid by check_png_attributes(file, U, M)
RoundTrip == (StoredAfresh /\ AskedForStored) => sc.ret = "TRUE"

\* C1: the longest URI and a two-digit time went round
RoundTripReached ==
    /\ StoredAfresh
    /\ AskedForStored
    /\ sc.ret = "TRUE"
    /\ Len(st.info.Thumb_URI) = Len(FileScheme) + 1 + MaxUriLen
    /\ Len(st.info.Thumb_MTime) = 2

\* C2: check_png_attributes returns TRUE only when the URI and the time it
\* was asked for are exactly the ones stored in the file.  It is stated for
\* the requests whose strings are no longer than the stored ones, those an
\* entry of the claim "merely starts with": every byte the scanner compares
\* is then a byte of the file.
Sensitivity ==
    (/\ sc.pc = "done"
     /\ sc.ret = "TRUE"
     /\ Len(sc.file_uri) <= Len(st.info.Thumb_URI)
     /\ Len(Decimal(sc.file_mtime)) <= Len(st.info.Thumb_MTime))
        => (sc.file_uri = st.info.Thumb_URI /\ Decimal(sc.file_mtime) = st.info.Thumb_MTime)

\* C3: however the encoder cuts its stream into calls, while all writes
\* succeed the file holds what was sent so far, with the two chunks between
\* byte inject_pos and the next as soon as inject_pos bytes were sent
SpliceCorrect ==
    (/\ st.fd > 0
     /\ st.before.data = <<>>
     /\ st.pc = "encoding" \/ (st.pc = "done" /\ st.retval = "TRUE"))
        => disk[st.path].data
             = Spliced(SubSeq(st.stream, 1, st.sent), st.info.Thumb_URI, st.info.Thumb_MTime)

\* C3: a call ended exactly at inject_pos and the chunks are in the file
SpliceReached ==
    /\ st.pc = "encoding"
    /\ st.sent = inject_pos
    /\ st.info.bytes_written = inject_pos
    /\ Len(disk[st.path].data) > inject_pos

\* the larger of width and height
LongEdge(t) == IF t[1] > t[2] THEN t[1] ELSE t[2]

\* C4: a store opens a file only for a thumbnail whose long edge is 256
\* (under large) or 128 (under normal); for every other size it returns
\* FALSE and has opened nothing
StoresOnlyTiers ==
    st.pc # "idle" =>
        IF LongEdge(file.thumbnail) = 256 THEN st.path \in {"", "large"}
        ELSE IF LongEdge(file.thumbnail) = 128 THEN st.path \in {"", "normal"}
        ELSE st.pc = "done" /\ st.retval = "FALSE" /\ st.path = ""

\* C5: a store whose g_open failed returns FALSE
OpenFailureReported ==
    (st.pc = "done" /\ st.path # "" /\ st.fd < 0) => st.retval = "FALSE"

\* C6: once a write has failed, png_writer has returned a write error, and
\* when the store has returned it returned FALSE and its path holds no file
WriteFailureRemoves ==
    st.failAt # 0 =>
        /\ st.status = "WRITE_ERROR"
        /\ st.pc \in {"error", "done"}
        /\ st.pc = "done" => (st.retval = "FALSE" /\ ~disk[st.path].exists)

\* C6: the write of the second chunk failed and the store has returned
WriteFailureReached ==
    /\ st.pc = "done"
    /\ st.failAt = 3
    /\ st.retval = "FALSE"
    /\ ~disk[st.path].exists

\* C7: after a store that wrote all of its stream the file holds the
\* spliced stream and nothing else, whatever it held before
Truncated ==
    (st.pc = "done" /\ st.fd > 0 /\ st.retval = "TRUE")
        => disk[st.path].data = Spliced(st.stream, st.info.Thumb_URI, st.info.Thumb_MTime)

\* C8: when stat fails on the source, the lookup examines no candidate and
\* returns FALSE
StatFailureMisses ==
    (~source.exists /\ ld.pc # "idle")
        => (ld.examined = <<>> /\ (ld.pc = "done" => ld.retval = "FALSE"))

\* the tiers a lookup for this size goes through
TiersOf(width, height, large, normal) ==
    IF width > 128 \/ height > 128 THEN <<large, normal>> ELSE <<normal>>

\* the candidates of the lookup in the order the claim gives
CandidateOrder ==
    IF ld.width > 256 \/ ld.height > 256 THEN <<>>
    ELSE TiersOf(ld.width, ld.height, "large", "normal")
         \o (IF source.shared
             THEN TiersOf(ld.width, ld.height, "sh_large", "sh_normal")
             ELSE <<>>)

\* whether the candidate path validates against the time the lookup holds
\* and one of the URI strings, and decodes
CanHit(path, uris) ==
    /\ Decode(disk[path]) # <<>>
    /\ \E u \in uris : "TRUE" \in check_png_attributes(disk[path], u, ld.file_mtime)

\* whether the candidate path can fail to validate or to decode
CanMiss(path, uris) ==
    \/ Decode(disk[path]) = <<>>
    \/ \E u \in uris : "FALSE" \in check_png_attributes(disk[path], u, ld.file_mtime)

\* the URI strings a candidate is validated against
UrisOf(path) ==
    IF path \in {"large", "normal"} THEN {FileUri(SourceName)}
    ELSE Freed(Basename(SourceName))

\* C9: the lookup tests the candidates in the order primary large (only
\* for a size above 128), primary normal, then, with a directory
\* .sh_thumbnails, shared large (same condition) and shared normal; it
\* examines those that exist, stops at the first that validates and
\* decodes and returns TRUE, and returns FALSE after the last one otherwise
CandidatesInOrder ==
    /\ Len(ld.tested) <= Len(CandidateOrder)
    /\ ld.tested = SubSeq(CandidateOrder, 1, Len(ld.tested))
    /\ [i \in 1..Len(ld.examined) |-> ld.examined[i].path]
         = SelectSeq(ld.tested, LAMBDA p : disk[p].exists)
    /\ \A i \in 1..Len(ld.examined) :
          /\ ld.examined[i].hit => (i = Len(ld.examined) /\ ld.pc = "done")
          /\ IF ld.examined[i].hit
             THEN CanHit(ld.examined[i].path, UrisOf(ld.examined[i].path))
             ELSE CanMiss(ld.examined[i].path, UrisOf(ld.examined[i].path))
    /\ ld.pc = "done" =>
          IF ld.retval = "TRUE"
          THEN /\ ld.examined # <<>>
               /\ ld.examined[Len(ld.examined)].hit
               /\ ld.examined[Len(ld.examined)].path = ld.tested[Len(ld.tested)]
          ELSE /\ ld.retval = "FALSE"
               /\ ld.tested = CandidateOrder

\* C9: a lookup went past three candidates and found its thumbnail in the
\* last one, shared normal
CandidatesReached ==
    /\ ld.pc = "done"
    /\ ld.retval = "TRUE"
    /\ ld.tested = <<"large", "normal", "sh_large", "sh_normal">>
    /\ Len(ld.examined) = 4

RECURSIVE StripFrom(_, _)
\* the bytes of data from the offset pos on without the whole tEXt chunks
\* whose checksum is not the CRC-32 of their type and payload
StripFrom(data, pos) ==
    IF pos + 8 > Len(data) THEN SubSeq(data, pos + 1, Len(data))
    ELSE IF data[pos + 1] > 0 \/ data[pos + 2] >= 16 THEN SubSeq(data, pos + 1, Len(data))
    ELSE LET n == WordToNat(SubSeq(data, pos + 1, pos + 4))
         IN  IF pos + 12 + n > Len(data) THEN SubSeq(data, pos + 1, Len(data))
             ELSE IF /\ SubSeq(data, pos + 5, pos + 8) = tEXt
                     /\ SubSeq(data, pos + 9 + n, pos + 12 + n)
                          # crc(ZeroWord, SubSeq(data, pos + 5, pos + 8 + n))
                  THEN StripFrom(data, pos + 12 + n)
                  ELSE SubSeq(data, pos + 1, pos + 12 + n) \o StripFrom(data, pos + 12 + n)

\* the file f with its checksum-invalid tEXt chunks left out
StripBad(f) ==
    IF ~f.exists \/ Len(f.data) < 8 THEN f
    ELSE FileOf(SubSeq(f.data, 1, 8) \o StripFrom(f.data, 8))

\* C10: check_png_attributes returns on a file what it returns on the file
\* without its checksum-invalid tEXt chunks
BadChecksumAbsent ==
    LET f == disk[sc.file_name]
    IN  /\ check_png_attributes(f, sc.file_uri, sc.file_mtime)
             = check_png_attributes(StripBad(f), sc.file_uri, sc.file_mtime)
        /\ sc.pc = "done"
             => sc.ret \in check_png_attributes(StripBad(f), sc.file_uri, sc.file_mtime)

\* C10: a file whose only Thumb::URI chunk has a bad checksum, followed by
\* a good Thumb::MTime chunk, was reported invalid
BadChecksumReached ==
    /\ sc.pc = "done"
    /\ sc.ret = "FALSE"
    /\ disk[sc.file_name].data
         = expected_header \o Corrupt(TextChunk(KeyURI, FileUri(SourceName)))
                           \o TextChunk(KeyMTime, Decimal(1))

(***************************************************************************)
(* A store and a lookup of the same file_t, their steps in any order, on   *)
(* sources that are eligible for the cache and on sources that are not.    *)
(***************************************************************************)
InitBoth ==
    /\ \E d \in DisplayNames(SourceName), mem \in BOOLEAN :
          file = [file_name |-> SourceName, display_name |-> d,
                  memory |-> mem, thumbnail |-> <<128, 128>>]
    /\ source \in [exists : {TRUE}, mtime : {1}, shared : BOOLEAN]
    /\ \E full \in BOOLEAN :
          disk = [p \in Paths |->
                    IF full /\ p = "normal"
                    THEN FileOf(Entry(FileUri(SourceName), 1, 128, 128, 0))
                    ELSE IF full /\ p = "sh_normal" /\ source.shared
                    THEN FileOf(Entry(Basename(SourceName), 1, 128, 128, 0))
                    ELSE NoFile]
    /\ st = StoreIdle
    /\ cs = CrcIdle
    /\ peer = PeerIdle(<<128, 128>>, 0)
    /\ sc = ScanIdle
    /\ ld = LoadIdle(128, 128)

NextBoth ==
    \/ StoreBegin
    \/ WriterCall
    \/ EncoderError
    \/ StoreAbort
    \/ StoreEnd
    \/ LoadBegin
    \/ LoadPrimary
    \/ LoadSharedDir
    \/ LoadShared
    \/ LoadEnd

SpecBoth == InitBoth /\ [][NextBoth]_vars

\* a memory image, or a display name whose last component is not the one
\* of the file name
Ineligible ==
    \/ file.memory
    \/ Basename(file.file_name) # Basename(file.display_name)

\* C11: for an ineligible source no step of a store or of a lookup changes
\* a cache file or the file_t, and both return FALSE
IneligibleNoOp ==
    [][Ineligible =>
          /\ disk' = disk
          /\ file' = file
          /\ st'.fd = -1
          /\ st'.pc = "done" => st'.retval = "FALSE"
          /\ ld'.pc = "done" => ld'.retval = "FALSE"]_vars

\* C11: a store and a lookup of a memory image have both returned FALSE
\* with an entry of the source's name in the cache
IneligibleReached ==
    /\ file.memory
    /\ st.pc = "done" /\ st.retval = "FALSE"
    /\ ld.pc = "done" /\ ld.retval = "FALSE"
    /\ disk["normal"].exists

(***************************************************************************)
(* Two processes store a thumbnail of the same source, of the same tier,   *)
(* their steps in any order.                                               *)
(***************************************************************************)
InitTwo ==
    /\ file = [file_name |-> SourceName, display_name |-> SourceName,
               memory |-> FALSE, thumbnail |-> <<128, 100>>]
    /\ source = [exists |-> TRUE, mtime |-> 1, shared |-> FALSE]
    /\ disk = [p \in Paths |-> NoFile]
    /\ st = StoreIdle
    /\ cs = CrcIdle
    /\ sc = ScanIdle
    /\ ld = LoadIdle(128, 128)
    /\ \E t \in {<<128, 100>>, <<100, 128>>}, m \in {0, 1} : peer = PeerIdle(t, m)

NextTwo ==
    \/ StoreBegin
    \/ WriterCall
    \/ EncoderError
    \/ StoreAbort
    \/ StoreEnd
    \/ PeerBegin
    \/ PeerWriterCall
    \/ PeerEncoderError
    \/ PeerAbort
    \/ PeerEnd

SpecTwo == InitTwo /\ [][NextTwo]_vars

\* C12: when two stores of the same cache file have both written all of
\* their stream and returned TRUE, the file holds the spliced stream of one
\* of them
LastWriterWins ==
    (/\ st.pc = "done" /\ st.fd > 0 /\ st.retval = "TRUE"
     /\ peer.pc = "done" /\ peer.fd > 0 /\ peer.retval = "TRUE"
     /\ st.path = peer.path)
        => disk[st.path].data
             \in {Spliced(st.stream, st.info.Thumb_URI, st.info.Thumb_MTime),
                  Spliced(peer.stream, peer.info.Thumb_URI, peer.info.Thumb_MTime)}

(***************************************************************************)
(* A store, and a scan step by step of a file of each kind the scanner     *)
(* can leave on: no file, a short or a wrong file header, the end of the   *)
(* file at a chunk header, in a tEXt payload, in its checksum, an entry.   *)
(***************************************************************************)
LeakFiles ==
    {NoFile,
     FileOf(SubSeq(expected_header, 1, 6)),
     FileOf(Zeros(8)),
     FileOf(expected_header),
     FileOf(expected_header \o SubSeq(TextChunk(KeyMTime, Decimal(1)), 1, 12)),
     FileOf(expected_header \o SubSeq(TextChunk(KeyMTime, Decimal(1)), 1, 24)),
     FileOf(Entry(FileUri(SourceName), 1, 256, 256, 0))}

InitLeak ==
    /\ file = [file_name |-> SourceName, display_name |-> SourceName,
               memory |-> FALSE, thumbnail |-> <<128, 128>>]
    /\ source = [exists |-> TRUE, mtime |-> 1, shared |-> FALSE]
    /\ \E f \in LeakFiles : disk = [p \in Paths |-> IF p = "large" THEN f ELSE NoFile]
    /\ st = StoreIdle
    /\ cs = CrcIdle
    /\ peer = PeerIdle(<<128, 128>>, 0)
    /\ \E b \in OffsetBits :
          sc = [ScanEntry(FileUri(SourceName), 1) EXCEPT !.file_name = "large",
                                                         !.off_t = b]
    /\ ld = LoadIdle(128, 128)

NextLeak ==
    \/ StoreBegin
    \/ WriterCall
    \/ EncoderError
    \/ StoreAbort
    \/ StoreEnd
    \/ ScanOpenStep
    \/ ScanChunkStep

SpecLeak == InitLeak /\ [][NextLeak]_vars

\* C13: when check_png_attributes has returned, and when
\* store_thumbnail_to_cache has returned, the descriptor the call opened is
\* closed
NoDescriptorLeak ==
    /\ (sc.pc = "done" /\ sc.ret # "CRASH") => ~sc.fd
    /\ st.pc = "done" => ~st.open

\* C13: the scanner has returned TRUE on an entry, and the store has
\* returned after g_open gave it the descriptor 0
NoDescriptorLeakReached ==
    /\ sc.pc = "done" /\ sc.ret = "TRUE"
    /\ st.pc = "done" /\ st.fd = 0

\* C14: a step of load_thumbnail_from_cache leaves every file of the
\* primary and of the shared cache as it was
LookupKeepsCache == [][ld' # ld => disk' = disk]_vars

\* C14: a lookup has returned after it turned down a candidate of the
\* primary cache and one of the shared cache
LookupKeepsCacheReached ==
    /\ ld.pc = "done"
    /\ \E i \in 1..Len(ld.examined) :
          ld.examined[i].path \in {"large", "normal"} /\ ~ld.examined[i].hit
    /\ \E i \in 1..Len(ld.examined) :
          ld.examined[i].path \in {"sh_large", "sh_normal"}

\* C15: each shared candidate is validated against the base name of the
\* local path, read from a buffer that is still allocated
SharedUriLive ==
    \A i \in 1..Len(ld.examined) :
        ld.examined[i].path \in {"sh_large", "sh_normal"}
            => /\ ld.examined[i].allocated
               /\ ld.examined[i].uri = Basename(get_local_filename(file))

\* C17: a lookup that returns TRUE for a width and a height of 1 to 256
\* leaves in file->thumbnail a surface no wider than width and no higher
\* than height
HitFitsBox ==
    (/\ ld.pc = "done" /\ ld.retval = "TRUE"
     /\ ld.width \in 1..256 /\ ld.height \in 1..256)
        => /\ file.thumbnail[1] <= ld.width
           /\ file.thumbnail[2] <= ld.height

(***************************************************************************)
(* The scanner on files whose chunks a writer of the format would not      *)
(* make: lengths beyond the file, lengths that wrap, tEXt payloads with no *)
(* bytes, with no NUL, with a value shorter than the one looked for.       *)
(***************************************************************************)
\* most chunks after the file header
MaxHostile == 2

\* a chunk header of another type than tEXt with the length word w
LengthHeader(w) == w \o IEND

HostileKinds ==
    {TextChunk(KeyURI, FileUri(SourceName)),
     TextChunk(KeyMTime, Decimal(1)),
     PngChunk(tEXt, <<>>),
     PngChunk(tEXt, KeyURI),
     TextChunk(KeyURI, SubSeq(FileUri(SourceName), 1, 4)),
     LengthHeader(<<0, 16, 0, 0>>),
     LengthHeader(<<255, 255, 255, 252>>),
     LengthHeader(<<255, 255, 255, 244>>),
     <<255, 255, 255, 255>> \o tEXt}

RECURSIVE HostileSeqs(_)
\* the bytes of up to n chunks
HostileSeqs(n) ==
    IF n = 0 THEN {<<>>}
    ELSE {<<>>} \cup {c \o r : c \in HostileKinds, r \in HostileSeqs(n - 1)}

HostileFiles == {FileOf(expected_header \o b) : b \in HostileSeqs(MaxHostile)}

InitHostile ==
    /\ file = [file_name |-> SourceName, display_name |-> SourceName,
               memory |-> FALSE, thumbnail |-> <<>>]
    /\ source = [exists |-> TRUE, mtime |-> 1, shared |-> FALSE]
    /\ \E f \in HostileFiles : disk = [p \in Paths |-> IF p = "large" THEN f ELSE NoFile]
    /\ st = StoreIdle
    /\ cs = CrcIdle
    /\ peer = PeerIdle(<<128, 128>>, 0)
    /\ \E b \in OffsetBits :
          sc = [ScanEntry(FileUri(SourceName), 1) EXCEPT !.file_name = "large",
                                                         !.off_t = b]
    /\ ld = LoadIdle(128, 128)

\* the scanner runs on for as long as it has not returned
SpecHostile == InitHostile /\ [][NextScan]_vars /\ WF_vars(NextScan)

\* C16: the scan comes to an end on every file, whatever the length words
\* of its chunk headers
ScanTerminates == <>(sc.pc = "done")

\* C19: no byte is read outside the payload of a tEXt chunk
PayloadReadsInside == ~sc.overread

\* C18: during one scan a match flag that is set stays set, whatever
\* chunks follow
FlagsMonotone ==
    [][(sc.pc = "chunks" /\ sc'.pc \in {"chunks", "done"})
          => /\ sc.file_uri_match => sc'.file_uri_match
             /\ sc.file_mtime_match => sc'.file_mtime_match]_vars

(***************************************************************************)
(* crc on two buffers A and B: over A, from there over B as line 175 does  *)
(* from "tEXt" over the payload, and over the two as one buffer.           *)
(***************************************************************************)
\* the longest buffer
MaxCrcLen == 2

\* the bytes of the buffers
CrcBytes == {0, 1, 116, 255}

\* the buffers
CrcBuffers == UNION {[1..n -> CrcBytes] : n \in 0..MaxCrcLen}

\* crc(0, A, len)
CrcFirst ==
    /\ cs.pc = "first"
    /\ cs' = [cs EXCEPT !.pc = "second", !.first = crc(ZeroWord, cs.A)]
    /\ UNCHANGED <<file, source, disk, st, sc, ld, peer>>

\* crc(crc(0, A, len), B, len)
CrcSecond ==
    /\ cs.pc = "second"
    /\ cs' = [cs EXCEPT !.pc = "whole", !.chained = crc(cs.first, cs.B)]
    /\ UNCHANGED <<file, source, disk, st, sc, ld, peer>>

\* crc(0, AB, len)
CrcWhole ==
    /\ cs.pc = "whole"
    /\ cs' = [cs EXCEPT !.pc = "done", !.whole = crc(ZeroWord, cs.A \o cs.B)]
    /\ UNCHANGED <<file, source, disk, st, sc, ld, peer>>

InitCrc ==
    /\ file = [file_name |-> SourceName, display_name |-> SourceName,
               memory |-> FALSE, thumbnail |-> <<>>]
    /\ source = [exists |-> TRUE, mtime |-> 1, shared |-> FALSE]
    /\ disk = [p \in Paths |-> NoFile]
    /\ st = StoreIdle
    /\ peer = PeerIdle(<<128, 128>>, 0)
    /\ sc = ScanIdle
    /\ ld = LoadIdle(128, 128)
    /\ \E A \in CrcBuffers, B \in CrcBuffers :
          cs = [CrcIdle EXCEPT !.pc = "first", !.A = A, !.B = B]

NextCrc ==
    \/ CrcFirst
    \/ CrcSecond
    \/ CrcWhole

SpecCrc == InitCrc /\ [][NextCrc]_vars

\* C20: the checksum of B taken on from the checksum of A is the checksum
\* of A followed by B
CrcChains == cs.pc = "done" => cs.chained = cs.whole

\* C20: both ways of taking the checksum were gone, on two buffers of
\* MaxCrcLen bytes that differ
CrcChainsReached ==
    /\ cs.pc = "done"
    /\ Len(cs.A) = MaxCrcLen /\ Len(cs.B) = MaxCrcLen
    /\ cs.A # cs.B
    /\ cs.chained # crc(ZeroWord, cs.B)

====
